---- MODULE Spec2Model ----
(***************************************************************************)
(* Model of the URL-shortening worker (src/src/worker.ts).                 *)
(*                                                                         *)
(* The worker is a set of itty-router handlers over one Cloudflare KV      *)
(* namespace (CM8ME_KV).  Requests run concurrently; a handler is atomic   *)
(* only between two awaits, so every await on the store (get, put) and on  *)
(* the outbound probe (fetch) is its own step here.                        *)
(***************************************************************************)
EXTENDS Integers, Sequences, FiniteSets, TLC

(***************************************************************************)
(* Bounds of the model.                                                    *)
(***************************************************************************)
\* number of requests issued in one behaviour; all of them can be in flight
\* at the same time
MaxReq == 2
Req == 1 .. MaxReq

(***************************************************************************)
(* Optional values: null is the empty tuple, a value v is <<v>>.           *)
(***************************************************************************)
Null == <<>>
Some(v) == <<v>>

\* JavaScript truthiness of a string-or-null: null and "" are falsy.
Truthy(opt) == opt # Null /\ opt[1] # ""

(***************************************************************************)
(* Environment (Env): the configured token and base URL.                   *)
(***************************************************************************)
API_TOKEN == "secret"
HOST_URL == "https://cm8.me"

\* Values of the Authorization header a client can send; Null is no header.
Headers == {Some(API_TOKEN), Some("wrong"), Null}

\* Request bodies of POST /: malformed JSON, or a JSON object with a url.
\* The url is not validated by the handler, so the empty string is an input.
ValidTarget == "http://example.com"
Bodies == {[json |-> FALSE, url |-> ""],
           [json |-> TRUE, url |-> ValidTarget],
           [json |-> TRUE, url |-> ""]}

\* Path parameters of GET /shorten/:url, still percent-encoded.
Params == {"example.com", "a%20b", "%"}

\* Outcomes of the HTTPS HEAD probe: a 2xx response, another response, a throw.
ProbeOutcomes == {"ok", "not_ok", "threw"}

(***************************************************************************)
(* Slug generation: Math.random().toString(36).slice(-7).                  *)
(***************************************************************************)
\* Values of Math.random(), each given by the base-36 digits of its fraction
\* as Number.prototype.toString(36) prints them: two typical values with 11
\* fraction digits, and 0.5, whose fraction is the single digit "i".
Randoms == {"k3x9p2m7q1a", "8c2v5n0w4zt", "i"}

ToString36(digits) == IF digits = "" THEN "0" ELSE "0." \o digits

\* String.prototype.slice(start) for any integer start.
Slice(s, start) ==
    LET n == Len(s)
        from == IF start < 0
                  THEN (IF n + start < 0 THEN 0 ELSE n + start)
                  ELSE (IF start > n THEN n ELSE start)
    IN  SubSeq(s, from + 1, n)

GenSlug(rnd) == Slice(ToString36(rnd), -7)

\* Every slug the handlers can generate.
SlugSpace == {GenSlug(rnd) : rnd \in Randoms}

(***************************************************************************)
(* URL helpers used by GET /shorten/:url and by Response.redirect.         *)
(***************************************************************************)
Char(s, i) == SubSeq(s, i, i)

HasPrefix(s, p) == Len(s) >= Len(p) /\ SubSeq(s, 1, Len(p)) = p

\* The percent escapes the inputs of the model use; any other escape, and a
\* "%" with fewer than two characters after it, is malformed.
PercentEscape(hex) ==
    CASE hex = "20" -> Some(" ")
      [] hex = "2F" -> Some("/")
      [] hex = "3A" -> Some(":")
      [] OTHER -> Null

\* decodeURIComponent from position i on: Some(decoded), or Null where the
\* built-in throws URIError.
RECURSIVE DecodeFrom(_, _)
DecodeFrom(s, i) ==
    IF i > Len(s) THEN Some("")
    ELSE IF Char(s, i) # "%"
           THEN LET rest == DecodeFrom(s, i + 1)
                IN  IF rest = Null THEN Null ELSE Some(Char(s, i) \o rest[1])
           ELSE IF i + 2 > Len(s) \/ PercentEscape(SubSeq(s, i + 1, i + 2)) = Null
                  THEN Null
                  ELSE LET rest == DecodeFrom(s, i + 3)
                       IN  IF rest = Null THEN Null
                           ELSE Some(PercentEscape(SubSeq(s, i + 1, i + 2))[1] \o rest[1])

DecodeURIComponent(s) == DecodeFrom(s, 1)

\* The host of an http(s) URL: what follows the scheme up to the first "/".
RECURSIVE HostEnd(_, _)
HostEnd(s, i) ==
    IF i > Len(s) \/ Char(s, i) = "/" THEN i - 1 ELSE HostEnd(s, i + 1)

\* new URL(u) does not throw: an http(s) scheme followed by a non-empty host
\* that holds no space (a forbidden host code point).
IsWellFormedURL(u) ==
    \E p \in {"https://", "http://"} :
        /\ HasPrefix(u, p)
        /\ LET rest == SubSeq(u, Len(p) + 1, Len(u))
               host == SubSeq(rest, 1, HostEnd(rest, 1))
           IN  /\ host # ""
               /\ \A i \in 1 .. Len(host) : Char(host, i) # " "

\* A scheme choice that falls back only when the probe threw.
FinalURLIgnoringStatus(link, outcome) ==
    IF outcome = "threw" THEN "http://" \o link ELSE "https://" \o link

\* The scheme choice after the probe: https unless the probe threw or its
\* response is not ok.
FinalURL(link, outcome) ==
    IF outcome = "ok" THEN "https://" \o link ELSE "http://" \o link

\* decodeURIComponent of each path parameter a client sends, computed once.
Decoded == [param \in Params |-> DecodeURIComponent(param)]

\* Every string a handler can pass to new URL or to Response.redirect: the
\* urls of the request bodies and the URLs built from the decoded parameters.
Targets ==
    {body.url : body \in Bodies} \cup
    {FinalURL(Decoded[param][1], outcome) :
        param \in {p \in Params : Decoded[p] # Null}, outcome \in ProbeOutcomes}

\* IsWellFormedURL of each of them, computed once.
WellFormed == [u \in Targets |-> IsWellFormedURL(u)]

(***************************************************************************)
(* The key-value store (KVNamespace): get, put, list.                      *)
(***************************************************************************)
\* KVNamespace.get: the stored string, or null for a key that is not stored.
KVGet(kv, key) == IF key \in DOMAIN kv THEN Some(kv[key]) ELSE Null

\* A put that keeps the value of a key that is already stored.
KVPutIfAbsent(kv, key, value) ==
    [k \in DOMAIN kv \cup {key} |-> IF k \in DOMAIN kv THEN kv[k] ELSE value]

\* KVNamespace.put: unconditional write, creating or replacing the key.
KVPut(kv, key, value) ==
    [k \in DOMAIN kv \cup {key} |-> IF k = key THEN value ELSE kv[k]]

\* KVNamespace.list: the names of the stored keys.
KVList(kv) == DOMAIN kv

(***************************************************************************)
(* Responses.                                                              *)
(***************************************************************************)
\* A response: its status, the field its body or header carries, that
\* field's value, and for a key listing the listed names.
Response(status, field, value) ==
    [status |-> status, field |-> field, value |-> value, keys |-> {}]
NoResponse == Response(0, "", "")
\* error(401, 'Invalid API token.')
Unauthorized == Response(401, "error", "Invalid API token.")
\* an exception no handler catches: the platform's failure response
Unhandled == Response(500, "platform", "")
\* the catch block of GET /shorten/:url
InternalError == Response(500, "error", "Internal Server Error")
NotFound == Response(404, "error", "URL not found")
HomePage == Response(200, "html", "Cimet's URL Shortener")
Redirect(url) == Response(302, "location", url)
PostCreated(s) == Response(200, "url", HOST_URL \o "/" \o s)
ShortenCreated(s) == Response(200, "short_url", "cm8.me/" \o s)
KeyListing(keys) == [Response(200, "keys", "") EXCEPT !.keys = keys]

(***************************************************************************)
(* State.                                                                  *)
(***************************************************************************)
VARIABLES
    store,      \* CM8ME_KV: a function from the stored keys to their values
    pc,         \* per request slot: the await the handler is suspended at
    req,        \* per request slot: the request (route, header, body, param)
    longLink,   \* per request slot: the handler's local longLink
    finalURL,   \* per request slot: the local finalURL of GET /shorten/:url
    probe,      \* per request slot: the outcome of the HTTPS HEAD probe
    slug,       \* per request slot: the handler's local slug
    resp,       \* per request slot: the response returned to the caller
    callKeys    \* per request slot: the keys stored when the request arrived

vars == <<store, pc, req, longLink, finalURL, probe, slug, resp, callKeys>>

locals == <<longLink, finalURL, probe, slug>>

NoRequest == [route |-> "", token |-> Null, param |-> ""]

\* The namespace outlives the worker: a worker starts on the mappings that
\* earlier requests to POST / left in it.
Seeds == {[k \in keys |-> ValidTarget] : keys \in SUBSET SlugSpace}

Init ==
    /\ store \in Seeds
    /\ pc = [r \in Req |-> "idle"]
    /\ req = [r \in Req |-> NoRequest]
    /\ longLink = [r \in Req |-> ""]
    /\ finalURL = [r \in Req |-> ""]
    /\ probe = [r \in Req |-> "none"]
    /\ slug = [r \in Req |-> ""]
    /\ resp = [r \in Req |-> NoResponse]
    /\ callKeys = [r \in Req |-> {}]

\* Request r is the r-th request to arrive.
Free(r) == pc[r] = "idle" /\ (IF r = 1 THEN TRUE ELSE pc[r - 1] # "idle")

\* The runtime hands a request to its handler, which runs to its first await.
Arrive(r, request, label) ==
    /\ Free(r)
    /\ req' = [req EXCEPT ![r] = request]
    /\ callKeys' = [callKeys EXCEPT ![r] = KVList(store)]
    /\ pc' = [pc EXCEPT ![r] = label]
    /\ UNCHANGED resp

\* The handler of slot r returns response; the request and its locals are gone.
Return(r, response) ==
    /\ pc' = [pc EXCEPT ![r] = "done"]
    /\ resp' = [resp EXCEPT ![r] = response]
    /\ req' = [req EXCEPT ![r] = NoRequest]
    /\ callKeys' = [callKeys EXCEPT ![r] = {}]
    /\ longLink' = [longLink EXCEPT ![r] = ""]
    /\ finalURL' = [finalURL EXCEPT ![r] = ""]
    /\ probe' = [probe EXCEPT ![r] = "none"]
    /\ slug' = [slug EXCEPT ![r] = ""]

\* The handler of slot r moves on to its next await.
Goto(r, label) ==
    /\ pc' = [pc EXCEPT ![r] = label]
    /\ UNCHANGED <<req, resp, callKeys>>

(***************************************************************************)
(* withAuthentication: a response ends the request, void lets it through.  *)
(***************************************************************************)
\* A middleware that compares the header only when there is one.
WithAuthenticationIfPresent(token) ==
    IF token # Null /\ token # Some(API_TOKEN) THEN Some(Unauthorized) ELSE Null

WithAuthentication(token) ==
    IF token # Some(API_TOKEN) THEN Some(Unauthorized) ELSE Null

(***************************************************************************)
(* GET /                                                                   *)
(***************************************************************************)
\* The handler has no await: it answers in the step it is called in.
Home(r) ==
    /\ Free(r)
    /\ Return(r, HomePage) /\ UNCHANGED store

(***************************************************************************)
(* POST /                                                                  *)
(***************************************************************************)
PostRequest(r, token) ==
    /\ Arrive(r, [NoRequest EXCEPT !.route = "POST /", !.token = token], "post_auth")
    /\ UNCHANGED <<store, locals>>

\* The middleware runs first; the handler runs only when it returns nothing,
\* and suspends at request.json().
PostAuth(r) ==
    /\ pc[r] = "post_auth"
    /\ IF WithAuthentication(req[r].token) # Null
         THEN Return(r, WithAuthentication(req[r].token)[1])
         ELSE Goto(r, "post_json") /\ UNCHANGED locals
    /\ UNCHANGED store

\* await request.json() reads the body and rejects on a malformed one, which
\* nothing catches.  Otherwise longLink = json?.url and the first slug is drawn.
PostJson(r, body) ==
    /\ pc[r] = "post_json"
    /\ IF ~body.json
         THEN Return(r, Unhandled)
         ELSE /\ longLink' = [longLink EXCEPT ![r] = body.url]
              /\ \E rnd \in Randoms : slug' = [slug EXCEPT ![r] = GenSlug(rnd)]
              /\ Goto(r, "post_get")
              /\ UNCHANGED <<finalURL, probe>>
    /\ UNCHANGED store

\* A loop that checks the same slug again instead of drawing another.
PostCollideNoRedraw(r, rnd) ==
    /\ pc[r] = "post_get"
    /\ Truthy(KVGet(store, slug[r]))
    /\ UNCHANGED vars

\* while (await env.CM8ME_KV.get(slug)): the value is truthy, draw another slug.
PostCollide(r, rnd) ==
    /\ pc[r] = "post_get"
    /\ Truthy(KVGet(store, slug[r]))
    /\ slug' = [slug EXCEPT ![r] = GenSlug(rnd)]
    /\ UNCHANGED <<store, pc, req, longLink, finalURL, probe, resp, callKeys>>

\* A check that reserves the slug it found unused before the loop ends.
PostFreeReserving(r) ==
    /\ pc[r] = "post_get"
    /\ ~Truthy(KVGet(store, slug[r]))
    /\ store' = KVPut(store, slug[r], "")
    /\ Goto(r, "post_put")
    /\ UNCHANGED locals

\* while (await env.CM8ME_KV.get(slug)): the value is falsy, the loop ends.
PostFree(r) ==
    /\ pc[r] = "post_get"
    /\ ~Truthy(KVGet(store, slug[r]))
    /\ Goto(r, "post_put")
    /\ UNCHANGED <<store, locals>>

\* The get or the put rejects: nothing catches it in this handler.
PostStorageError(r) ==
    /\ pc[r] \in {"post_get", "post_put"}
    /\ Return(r, Unhandled)
    /\ UNCHANGED store

\* await env.CM8ME_KV.put(slug, longLink)
PostPut(r) ==
    /\ pc[r] = "post_put"
    /\ store' = KVPut(store, slug[r], longLink[r])
    /\ Goto(r, "post_return")
    /\ UNCHANGED locals

\* return new Response(JSON.stringify({ url: `${env.HOST_URL}/${slug}` }))
PostReturn(r) ==
    /\ pc[r] = "post_return"
    /\ Return(r, PostCreated(slug[r]))
    /\ UNCHANGED store

(***************************************************************************)
(* GET /shorten/:url                                                       *)
(***************************************************************************)
ShortenRequest(r, param) ==
    /\ Arrive(r, [NoRequest EXCEPT !.route = "GET /shorten/:url", !.param = param],
              "shorten_decode")
    /\ UNCHANGED <<store, locals>>

\* longLink = decodeURIComponent(request.params.url); a URIError goes to the
\* catch block.  Otherwise the handler suspends at the HEAD probe.
ShortenDecode(r) ==
    /\ pc[r] = "shorten_decode"
    /\ IF Decoded[req[r].param] = Null
         THEN Return(r, InternalError)
         ELSE /\ longLink' = [longLink EXCEPT ![r] = Decoded[req[r].param][1]]
              /\ Goto(r, "shorten_fetch")
              /\ UNCHANGED <<finalURL, probe, slug>>
    /\ UNCHANGED store

\* await fetch(httpsURL, { method: 'HEAD' }) ends with outcome; finalURL is
\* chosen, new URL(finalURL) validates it, and the first slug is drawn.
ShortenFetch(r, outcome) ==
    /\ pc[r] = "shorten_fetch"
    /\ IF ~WellFormed[FinalURL(longLink[r], outcome)]
         THEN Return(r, InternalError)
         ELSE /\ probe' = [probe EXCEPT ![r] = outcome]
              /\ finalURL' = [finalURL EXCEPT ![r] = FinalURL(longLink[r], outcome)]
              /\ \E rnd \in Randoms : slug' = [slug EXCEPT ![r] = GenSlug(rnd)]
              /\ Goto(r, "shorten_get")
              /\ UNCHANGED longLink
    /\ UNCHANGED store

\* while (await env.CM8ME_KV.get(slug)): the value is truthy, draw another slug.
ShortenCollide(r, rnd) ==
    /\ pc[r] = "shorten_get"
    /\ Truthy(KVGet(store, slug[r]))
    /\ slug' = [slug EXCEPT ![r] = GenSlug(rnd)]
    /\ UNCHANGED <<store, pc, req, longLink, finalURL, probe, resp, callKeys>>

\* while (await env.CM8ME_KV.get(slug)): the value is falsy, the loop ends.
ShortenFree(r) ==
    /\ pc[r] = "shorten_get"
    /\ ~Truthy(KVGet(store, slug[r]))
    /\ Goto(r, "shorten_put")
    /\ UNCHANGED <<store, locals>>

\* A rejected get or put that escapes the handler.
ShortenStorageErrorUncaught(r) ==
    /\ pc[r] \in {"shorten_get", "shorten_put"}
    /\ Return(r, Unhandled)
    /\ UNCHANGED store

\* The get or the put rejects: the catch block answers.
ShortenStorageError(r) ==
    /\ pc[r] \in {"shorten_get", "shorten_put"}
    /\ Return(r, InternalError)
    /\ UNCHANGED store

\* await env.CM8ME_KV.put(slug, finalURL)
ShortenPut(r) ==
    /\ pc[r] = "shorten_put"
    /\ store' = KVPut(store, slug[r], finalURL[r])
    /\ Goto(r, "shorten_return")
    /\ UNCHANGED locals

\* return new Response(JSON.stringify({ short_url: `cm8.me/${slug}` }))
ShortenReturn(r) ==
    /\ pc[r] = "shorten_return"
    /\ Return(r, ShortenCreated(slug[r]))
    /\ UNCHANGED store

(***************************************************************************)
(* GET /keys/list                                                          *)
(***************************************************************************)
\* The handler has one await, the list, and answers with what it returned.
KeysList(r) ==
    /\ Free(r)
    /\ Return(r, KeyListing(KVList(store))) /\ UNCHANGED store

(***************************************************************************)
(* GET /:slug                                                              *)
(***************************************************************************)
\* The response for the value the get returned.  Response.redirect throws
\* on a target that is no URL, and nothing catches it.
ResolveResponse(redirectTo) ==
    IF Truthy(redirectTo)
      THEN IF WellFormed[redirectTo[1]] THEN Redirect(redirectTo[1]) ELSE Unhandled
      ELSE NotFound

\* Slugs a client can ask for: every slug that can be generated and one
\* that never is.
Lookups == SlugSpace \cup {"nosuch1"}

ResolveRequest(r, s) ==
    /\ Arrive(r, [NoRequest EXCEPT !.route = "GET /:slug", !.param = s], "resolve_get")
    /\ UNCHANGED <<store, locals>>

\* redirectTo = await env.CM8ME_KV.get(slug), and the answer for it.
ResolveGet(r) ==
    /\ pc[r] = "resolve_get"
    /\ Return(r, ResolveResponse(KVGet(store, req[r].param)))
    /\ UNCHANGED store

\* The get rejects: nothing catches it in this handler.
ResolveStorageError(r) ==
    /\ pc[r] = "resolve_get"
    /\ Return(r, Unhandled)
    /\ UNCHANGED store

(***************************************************************************)
(* The system.                                                             *)
(***************************************************************************)
Next ==
    \E r \in Req :
        \/ Home(r)
        \/ \E token \in Headers : PostRequest(r, token)
        \/ PostAuth(r)
        \/ \E body \in Bodies : PostJson(r, body)
        \/ \E rnd \in Randoms : PostCollide(r, rnd)
        \/ PostFree(r)
        \/ PostStorageError(r)
        \/ PostPut(r)
        \/ PostReturn(r)
        \/ \E param \in Params : ShortenRequest(r, param)
        \/ ShortenDecode(r)
        \/ \E outcome \in ProbeOutcomes : ShortenFetch(r, outcome)
        \/ \E rnd \in Randoms : ShortenCollide(r, rnd)
        \/ ShortenFree(r)
        \/ ShortenStorageError(r)
        \/ ShortenPut(r)
        \/ ShortenReturn(r)
        \/ KeysList(r)
        \/ \E s \in Lookups : ResolveRequest(r, s)
        \/ ResolveGet(r)
        \/ ResolveStorageError(r)

Spec == Init /\ [][Next]_vars

(***************************************************************************)
(* Scheduling.  The runtime resumes a handler once the promise it awaits   *)
(* settles, and every get, put and fetch settles.  Nothing obliges the     *)
(* store to reject a call, so the steps of a rejected get or put are not   *)
(* among the fair ones.  The random source is fair: a loop that keeps      *)
(* drawing draws every value again and again.                              *)
(***************************************************************************)
Step(r) ==
    \/ PostAuth(r)
    \/ \E body \in Bodies : PostJson(r, body)
    \/ \E rnd \in Randoms : PostCollide(r, rnd)
    \/ PostFree(r)
    \/ PostPut(r)
    \/ PostReturn(r)
    \/ ShortenDecode(r)
    \/ \E outcome \in ProbeOutcomes : ShortenFetch(r, outcome)
    \/ \E rnd \in Randoms : ShortenCollide(r, rnd)
    \/ ShortenFree(r)
    \/ ShortenPut(r)
    \/ ShortenReturn(r)
    \/ ResolveGet(r)

Fairness ==
    \A r \in Req :
        /\ WF_vars(Step(r))
        /\ \A rnd \in Randoms :
              SF_vars(PostCollide(r, rnd) \/ ShortenCollide(r, rnd))

FairSpec == Init /\ [][Next]_vars /\ Fairness

(***************************************************************************)
(* Vocabulary of the properties.                                           *)
(***************************************************************************)
\* Request r is in the collision-retry loop of a create.
InLoop(r) == pc[r] \in {"post_get", "shorten_get"}

\* Request r has left the loop and is about to put.
AtPut(r) == pc[r] \in {"post_put", "shorten_put"}

\* Request r has put its mapping and is about to return its slug.
AtReturn(r) == pc[r] \in {"post_return", "shorten_return"}

\* The target a create request stores.
Target(r) == IF req[r].route = "POST /" THEN longLink[r] ELSE finalURL[r]

\* The loop takes slug s for used.
Occupied(s) == Truthy(KVGet(store, s))

Alphabet == "0123456789abcdefghijklmnopqrstuvwxyz"
IsAlnum(c) == \E j \in 1 .. Len(Alphabet) : Char(Alphabet, j) = c

(***************************************************************************)
(* C1.  Round trip: when POST / with a matching Authorization header and   *)
(* a valid target t returns slug s, a resolve of s issued right after the  *)
(* return answers 302 to exactly t.  (A resolve reads the store once, so   *)
(* its answer is the response for the store the return leaves.)            *)
(***************************************************************************)
RoundTrip ==
    [][\A r \in Req :
          (PostReturn(r) /\ WellFormed[longLink[r]]) =>
              ResolveResponse(KVGet(store', slug[r])) = Redirect(longLink[r])]_vars

(***************************************************************************)
(* C2.  POST / whose Authorization header is not exactly the configured    *)
(* token (a missing header included) returns 401 and writes nothing: the   *)
(* only step such a request ever takes is the middleware's, which answers  *)
(* 401 and leaves the store as it was, so the handler body is not reached. *)
(***************************************************************************)
UnauthorizedPostWritesNothing ==
    [][\A r \in Req :
          (/\ req[r].route = "POST /"
           /\ req[r].token # Some(API_TOKEN)
           /\ pc'[r] # pc[r]) =>
              (/\ pc[r] = "post_auth"
               /\ pc'[r] = "done"
               /\ resp'[r] = Unauthorized
               /\ store' = store)]_vars

\* A POST / without a header has been answered 401 while another POST / is
\* past the middleware.
UnauthorizedPostAnswered ==
    \E r1, r2 \in Req :
        /\ pc[r1] = "done" /\ resp[r1] = Unauthorized
        /\ pc[r2] = "post_get"

(***************************************************************************)
(* C3.  resolve is a direct lookup: whenever its get succeeds it answers   *)
(* 302 to the stored target if the slug is a key of the store, whatever    *)
(* the value, and 404 "URL not found" if the slug is not a key.            *)
(***************************************************************************)
ResolveIsDirectLookup ==
    [][\A r \in Req :
          ResolveGet(r) =>
              resp'[r] = IF req[r].param \in DOMAIN store
                           THEN Redirect(store[req[r].param])
                           ELSE NotFound]_vars

(***************************************************************************)
(* C4.  A create never puts to, and never returns, a slug that was a key   *)
(* of the store when its request arrived.                                  *)
(***************************************************************************)
CreateSkipsExistingKeys ==
    [][\A r \in Req :
          (PostPut(r) \/ ShortenPut(r) \/ PostReturn(r) \/ ShortenReturn(r)) =>
              slug[r] \notin callKeys[r]]_vars

(***************************************************************************)
(* C5.  A mapping is never updated or deleted: a key of the store stays a  *)
(* key and keeps its value in every step.                                  *)
(***************************************************************************)
MappingsNeverChange ==
    [][\A k \in DOMAIN store : k \in DOMAIN store' /\ store'[k] = store[k]]_vars

(***************************************************************************)
(* C6.  Scheme choice of GET /shorten/:url: the put of the request stores  *)
(* https://h when the HEAD probe of https://h returned a 2xx response and  *)
(* http://h when the probe threw or returned another response, h being     *)
(* the decoded host; it stores nothing else and touches no other key.      *)
(***************************************************************************)
ShortenSchemeChoice ==
    [][\A r \in Req :
          ShortenPut(r) =>
              /\ probe[r] \in ProbeOutcomes
              /\ store'[slug[r]] = IF probe[r] = "ok"
                                     THEN "https://" \o longLink[r]
                                     ELSE "http://" \o longLink[r]
              /\ \A k \in DOMAIN store' \ {slug[r]} :
                    k \in DOMAIN store /\ store'[k] = store[k]]_vars

\* One request stored https://example.com after a 2xx probe and another
\* stored http://example.com after a probe that threw.
ShortenStoredBothSchemes ==
    \E r1, r2 \in Req :
        /\ pc[r1] = "shorten_return" /\ probe[r1] = "ok"
        /\ store[slug[r1]] = "https://example.com"
        /\ pc[r2] = "shorten_return" /\ probe[r2] = "threw"
        /\ store[slug[r2]] = "http://example.com"

(***************************************************************************)
(* C7.  The check-then-write of create is not atomic.  When a create has   *)
(* left the loop with slug s and another create has meanwhile stored its   *)
(* own truthy target under s, the put of the first is not held back: it    *)
(* replaces the other's target, and the request goes on to return s.       *)
(***************************************************************************)
RacingPutOverwrites ==
    [][\A r1, r2 \in Req :
          (/\ r1 # r2
           /\ AtReturn(r2)
           /\ slug[r1] = slug[r2]
           /\ Truthy(Some(Target(r2)))
           /\ KVGet(store, slug[r2]) = Some(Target(r2))
           /\ Target(r1) # Target(r2)
           /\ (PostPut(r1) \/ ShortenPut(r1))) =>
              (/\ store'[slug[r1]] = Target(r1)
               /\ store'[slug[r1]] # store[slug[r1]]
               /\ pc'[r1] \in {"post_return", "shorten_return"})]_vars

\* Two creates with different truthy targets passed the check for the same
\* slug, which was not stored when they arrived; both have put and both are
\* about to return that slug; the store holds the target of one of them.
RaceOverwrote ==
    \E r1, r2 \in Req :
        /\ r1 # r2
        /\ AtReturn(r1) /\ AtReturn(r2)
        /\ slug[r1] = slug[r2]
        /\ slug[r1] \notin callKeys[r1] \cup callKeys[r2]
        /\ Truthy(Some(Target(r1))) /\ Truthy(Some(Target(r2)))
        /\ Target(r1) # Target(r2)
        /\ KVGet(store, slug[r1]) = Some(Target(r1))

SlugsAreSevenAlnum ==
    \A r \in Req :
        (InLoop(r) \/ AtPut(r) \/ AtReturn(r)) =>
            /\ Len(slug[r]) = 7
            /\ \A i \in 1 .. Len(slug[r]) : IsAlnum(Char(slug[r], i))

(***************************************************************************)
(* C10.  Termination of the collision-retry loop.  Under fair draws, a     *)
(* create in the loop leaves it and its request ends whenever some slug    *)
(* of the keyspace stays unused: for every slug s, a request in the loop   *)
(* leads to the request being over or s being occupied.  The loop has no   *)
(* retry bound: while every slug is occupied no get lets the request go    *)
(* on to its put; the only step that ends the loop is a rejected get.      *)
(***************************************************************************)
RetryLoopTerminates ==
    /\ \A r \in Req : \A s \in SlugSpace :
          InLoop(r) ~> (pc[r] = "done" \/ Occupied(s))
    /\ [][\A r \in Req :
            (/\ InLoop(r)
             /\ \A s \in SlugSpace : Occupied(s)
             /\ pc'[r] # pc[r]) =>
                (pc'[r] = "done" /\ resp'[r] \in {Unhandled, InternalError})]_vars

\* A create is in the loop, and every slug of the keyspace is occupied.
LoopWithFullKeyspace ==
    \E r \in Req : InLoop(r) /\ \A s \in SlugSpace : Occupied(s)

(***************************************************************************)
(* C11.  Frame.  The only step that changes the store is the put of a      *)
(* create request, and that request then returns its success response.     *)
(* The home page, the key listing, a resolve, the existence checks of the  *)
(* retry loop, the reachability probe and a POST / whose body fails JSON   *)
(* parsing leave the store as it was.  Each successful create performs     *)
(* exactly one put: its success response is returned from the point right  *)
(* after the put, that point is entered by the put alone, left by the      *)
(* return alone, and a request that is over takes no further step.         *)
(***************************************************************************)
OnlyCreatePutWrites ==
    [][/\ store' # store =>
             \E r \in Req :
                 /\ AtPut(r)
                 /\ store' = KVPut(store, slug[r], Target(r))
                 /\ AtReturn(r)'
       /\ \A r \in Req :
             /\ (\/ Home(r)
                 \/ KeysList(r)
                 \/ \E s \in Lookups : ResolveRequest(r, s)
                 \/ ResolveGet(r)
                 \/ \E rnd \in Randoms : PostCollide(r, rnd) \/ ShortenCollide(r, rnd)
                 \/ PostFree(r) \/ ShortenFree(r)
                 \/ \E outcome \in ProbeOutcomes : ShortenFetch(r, outcome)
                 \/ \E body \in Bodies : ~body.json /\ PostJson(r, body))
                    => store' = store
             /\ (AtReturn(r) /\ pc'[r] # pc[r]) =>
                    /\ pc'[r] = "done"
                    /\ resp'[r] \in {PostCreated(slug[r]), ShortenCreated(slug[r])}
                    /\ store' = store
             /\ (~AtReturn(r) /\ AtReturn(r)') =>
                    /\ AtPut(r)
                    /\ store' = KVPut(store, slug[r], Target(r))
             /\ (pc[r] # "done" /\ pc'[r] = "done"
                    /\ resp'[r].field \in {"url", "short_url"}) => AtReturn(r)
             /\ pc[r] = "done" => pc'[r] = "done"]_vars

\* A POST / has returned its short link, its slug is the one key of the
\* store and holds its target, and the other request has ended in the
\* platform's failure response: of the two requests one put, once.
CreatePutOnceAndReturned ==
    \E r1, r2 \in Req : \E s \in SlugSpace :
        /\ r1 # r2
        /\ pc[r1] = "done" /\ resp[r1] = PostCreated(s)
        /\ pc[r2] = "done" /\ resp[r2] = Unhandled
        /\ KVGet(store, s) = Some(ValidTarget)
        /\ DOMAIN store = {s}

====
